---- MODULE Spec2Model ----
(***************************************************************************)
(* A model of the file organizer: organize() walks a source tree, computes *)
(* a destination for every file, applies the duplicate policy, resolves    *)
(* name conflicts, places the file and writes an undo manifest; undo()     *)
(* replays a manifest in reverse.                                          *)
(*                                                                         *)
(* A file name is a sequence of one-character strings, a path a sequence   *)
(* of names, the filesystem a function from the paths of the existing      *)
(* files to their inode, content hash, size and modification date, plus    *)
(* the set of the existing directories.                                    *)
(***************************************************************************)
EXTENDS Integers, Sequences, FiniteSets, TLC

VARIABLES
    fs,           \* existing files: path -> [ino, hash, size, mtime]
    dirs,         \* existing directories (paths)
    manifest,     \* the undo manifest file: [exists, valid, ops]
    pc,           \* "idle", "walking", "organized", "undoing", "undone", "error"
    err,          \* the exception raised ("" when none)
    run,          \* the arguments of the organize call in progress or done
    walk,         \* os.walk: [files, stack], the files still to yield and the directories pending
    seen_hashes,  \* organize's seen_hashes: hash -> source path
    results,      \* the list organize / undo returns
    undo_ops,     \* undo: the operations still to replay, reversed(ops)
    hist          \* history: the filesystem at the start of the call, and what happened since

vars == <<fs, dirs, manifest, pc, err, run, walk, seen_hashes, results, undo_ops, hist>>

----------------------------------------------------------------------------
(* Bounds of the model.                                                    *)

\* the number of distinct file contents in the source tree
MaxHash == 2
\* the number of files an outside party may delete between organize and undo
MaxExternal == 1
\* the number of calls of the conflict namer in a row
MaxCalls == 3
\* the number of times undo is called
MaxUndo == 2

----------------------------------------------------------------------------
(* Sequences and names.                                                    *)

RECURSIVE Reverse(_)
Reverse(s) == IF s = <<>> THEN <<>> ELSE Append(Reverse(Tail(s)), Head(s))

RECURSIVE SelectSeqBy(_, _)
\* the subsequence of the records whose action is in the set acts
SelectSeqBy(s, acts) ==
    IF s = <<>> THEN <<>>
    ELSE IF Head(s).action \in acts
         THEN <<Head(s)>> \o SelectSeqBy(Tail(s), acts)
         ELSE SelectSeqBy(Tail(s), acts)

Range(s) == {s[i] : i \in 1..Len(s)}

\* Path.name and Path.parent
Name(p) == p[Len(p)]
Parent(p) == SubSeq(p, 1, Len(p) - 1)

\* str.rfind("."), as a 1-based index, 0 when there is no dot
RFindDot(name) ==
    LET dots == {i \in 1..Len(name) : name[i] = "."}
    IN IF dots = {} THEN 0 ELSE CHOOSE i \in dots : \A j \in dots : j <= i

\* Path.suffix: from the last dot, unless the dot is the first or the last character
Suffix(name) ==
    LET i == RFindDot(name)
    IN IF 1 < i /\ i < Len(name) THEN SubSeq(name, i, Len(name)) ELSE <<>>

\* Path.stem: the name without its suffix
Stem(name) == SubSeq(name, 1, Len(name) - Len(Suffix(name)))

Digit(d) == CASE d = 0 -> "0" [] d = 1 -> "1" [] d = 2 -> "2" [] d = 3 -> "3"
              [] d = 4 -> "4" [] d = 5 -> "5" [] d = 6 -> "6" [] d = 7 -> "7"
              [] d = 8 -> "8" [] d = 9 -> "9"

RECURSIVE Decimal(_)
\* str(i) of a natural number
Decimal(i) == IF i < 10 THEN <<Digit(i)>> ELSE Append(Decimal(i \div 10), Digit(i % 10))

RECURSIVE ZeroPad(_, _)
\* f"{n:0wd}": the digits, padded with zeros on the left to width w
ZeroPad(digits, w) == IF Len(digits) >= w THEN digits ELSE ZeroPad(<<"0">> \o digits, w)

\* str.startswith
StartsWith(s, prefix) ==
    Len(prefix) <= Len(s) /\ SubSeq(s, 1, Len(prefix)) = prefix

\* str.lower on the characters the model uses
LowerChar(c) == CASE c = "T" -> "t" [] c = "A" -> "a" [] c = "B" -> "b" [] c = "X" -> "x"
                    [] OTHER -> c
Lower(s) == [i \in 1..Len(s) |-> LowerChar(s[i])]

----------------------------------------------------------------------------
(* utils.py                                                                *)

\* Path.exists, on the filesystem (F, D)
Exists(F, D, p) == p \in DOMAIN F \/ p \in D

\* ensure_dir: mkdir(parents=True, exist_ok=True) creates the path and every missing ancestor
ensure_dir(D, path) == D \cup {SubSeq(path, 1, n) : n \in 1..Len(path)}

\* ensure_dir failing: mkdir made the directories of path down to depth m only
ensure_dir_upto(D, path, m) == D \cup {SubSeq(path, 1, n) : n \in 1..m}

\* the candidate parent / f"{stem}({i}){suffix}"
Candidate(dst, i) ==
    Append(Parent(dst), Stem(Name(dst)) \o <<"(">> \o Decimal(i) \o <<")">> \o Suffix(Name(dst)))

\* the candidate of counter i, taken whether it exists or not
NextCandidateUnchecked(F, D, dst, i) == Candidate(dst, i)

RECURSIVE NextCandidate(_, _, _, _)
\* the loop of next_nonconflicting_name, from counter i on
NextCandidate(F, D, dst, i) ==
    IF ~Exists(F, D, Candidate(dst, i)) THEN Candidate(dst, i)
    ELSE NextCandidate(F, D, dst, i + 1)

\* the name as given, taken or not
next_name_unchecked(F, D, dst) == dst

\* next_nonconflicting_name: dst when it is free, else the first free candidate
next_nonconflicting_name(F, D, dst) ==
    IF ~Exists(F, D, dst) THEN dst ELSE NextCandidate(F, D, dst, 1)

\* a fresh inode number for a copy
NewIno(F) ==
    LET used == {F[p].ino : p \in DOMAIN F}
    IN IF used = {} THEN 1 ELSE 1 + (CHOOSE m \in used : \A k \in used : k <= m)

\* os.link(src, dst): a second path to the same inode
Link(F, src, dst) == [p \in DOMAIN F \cup {dst} |-> IF p = dst THEN F[src] ELSE F[p]]

\* shutil.copy2(src, dst): a new file with the same content and metadata
Copy2(F, src, dst) ==
    [p \in DOMAIN F \cup {dst} |-> IF p = dst THEN [F[src] EXCEPT !.ino = NewIno(F)] ELSE F[p]]

\* the day of the run, which a file written without its source's times carries
Today == [year |-> 2026, month |-> 10, day |-> 29]

\* shutil.copy2(src, dst) failing: dst was created and holds the first k bytes of
\* src (hash 1 is the empty content, a proper prefix has a content of its own);
\* stat tells whether copystat had set the times when the error came
PartialCopy(F, src, dst, k, stat) ==
    LET whole == k = F[src].size
        part == [ino |-> NewIno(F),
                 hash |-> IF whole THEN F[src].hash
                          ELSE IF k = 0 THEN 1
                          ELSE 10 * F[src].hash + k,
                 size |-> k,
                 mtime |-> IF whole /\ stat THEN F[src].mtime ELSE Today]
    IN [p \in DOMAIN F \cup {dst} |-> IF p = dst THEN part ELSE F[p]]

\* a move that leaves the file at src as well
MoveKeepsSource(F, src, dst) == [p \in DOMAIN F \cup {dst} |-> IF p = dst THEN F[src] ELSE F[p]]

\* os.rename(src, dst) and os.replace(src, dst): the file leaves src and is at dst
Move(F, src, dst) ==
    [p \in (DOMAIN F \ {src}) \cup {dst} |-> IF p = dst THEN F[src] ELSE F[p]]

\* shutil.move(src, dst) when os.rename fails: copy2 to dst, then unlink src
MoveByCopy(F, src, dst) ==
    [p \in (DOMAIN F \ {src}) \cup {dst} |->
        IF p = dst THEN [F[src] EXCEPT !.ino = NewIno(F)] ELSE F[p]]

\* shutil.move(src, dst): a rename on one filesystem, a copy and an unlink across two
ShutilMove(F, src, dst, rename_ok) ==
    IF rename_ok THEN Move(F, src, dst) ELSE MoveByCopy(F, src, dst)

\* safe_link_or_copy: the action it reports; link_ok says whether os.link succeeds
PlacedAction(mode, link_ok) ==
    IF mode = "hardlink" THEN (IF link_ok THEN "hardlink" ELSE "copy")
    ELSE IF mode = "copy" THEN "copy"
    ELSE "move"

\* nothing is placed
safe_link_or_copy_nothing(F, D, src, dst0, mode, link_ok, rename_ok) == F

\* safe_link_or_copy: the filesystem it leaves
safe_link_or_copy(F, D, src, dst0, mode, link_ok, rename_ok) ==
    LET dst == next_nonconflicting_name(F, D, dst0)
    IN IF mode = "hardlink" THEN (IF link_ok THEN Link(F, src, dst) ELSE Copy2(F, src, dst))
       ELSE IF mode = "copy" THEN Copy2(F, src, dst)
       ELSE ShutilMove(F, src, dst, rename_ok)


\* within_dir: child.relative_to(parent) succeeds when parent is a prefix of child
within_dir(child, parent) == StartsWith(child, parent)

----------------------------------------------------------------------------
(* rules.py                                                                *)

RECURSIVE FnMatch(_, _)
\* Path.match of a one-component pattern against the file name ("*" and "?" wildcards)
FnMatch(s, pat) ==
    IF pat = <<>> THEN s = <<>>
    ELSE IF Head(pat) = "*"
         THEN FnMatch(s, Tail(pat)) \/ (s # <<>> /\ FnMatch(Tail(s), pat))
         ELSE s # <<>> /\ (Head(pat) = "?" \/ Head(pat) = Head(s)) /\ FnMatch(Tail(s), Tail(pat))

ExtTxt == <<".", "t", "x", "t">>
ExtJpg == <<".", "j", "p", "g">>
MimeTextPlain == <<"t", "e", "x", "t", "/", "p", "l", "a", "i", "n">>
MimeImageJpeg == <<"i", "m", "a", "g", "e", "/", "j", "p", "e", "g">>

\* mimetypes.guess_type: the type of the lower-cased suffix, <<>> for None
GuessType(name) ==
    LET ext == Lower(Suffix(name))
    IN IF ext = ExtTxt THEN MimeTextPlain
       ELSE IF ext = ExtJpg THEN MimeImageJpeg
       ELSE <<>>

RECURSIVE FirstGlob(_, _)
\* the folder of the first glob pattern that matches, <<>> for none
FirstGlob(by_glob, name) ==
    IF by_glob = <<>> THEN <<>>
    ELSE IF FnMatch(name, Head(by_glob).pattern) THEN Head(by_glob).folder
    ELSE FirstGlob(Tail(by_glob), name)

RECURSIVE FirstMime(_, _)
\* the folder of the first MIME prefix that prefixes the type, <<>> for none
FirstMime(by_mime, mime) ==
    IF by_mime = <<>> THEN <<>>
    ELSE IF StartsWith(mime, Head(by_mime).prefix) THEN Head(by_mime).folder
    ELSE FirstMime(Tail(by_mime), mime)

\* the glob patterns tried before the extension map
match_folder_glob_first(rules, name) ==
    IF \E i \in 1..Len(rules.by_glob) : FnMatch(name, rules.by_glob[i].pattern)
    THEN FirstGlob(rules.by_glob, name)
    ELSE IF Lower(Suffix(name)) \in DOMAIN rules.by_extension
         THEN rules.by_extension[Lower(Suffix(name))]
    ELSE IF GuessType(name) # <<>> THEN FirstMime(rules.by_mime, GuessType(name))
    ELSE <<>>

\* Rules.match_folder_for; <<>> stands for None
match_folder_for(rules, name) ==
    LET ext == Lower(Suffix(name))
        mime == GuessType(name)
    IN IF ext \in DOMAIN rules.by_extension THEN rules.by_extension[ext]
       ELSE IF \E i \in 1..Len(rules.by_glob) : FnMatch(name, rules.by_glob[i].pattern)
            THEN FirstGlob(rules.by_glob, name)
       ELSE IF mime # <<>> THEN FirstMime(rules.by_mime, mime)
       ELSE <<>>

BytesPerMb == 1048576

RECURSIVE match_size_bucket_strict(_, _)
\* the size compared with < instead of <=
match_size_bucket_strict(buckets, size_bytes) ==
    IF buckets = <<>> THEN <<>>
    ELSE LET bucket == Head(buckets)
         IN IF ~bucket.has_folder THEN match_size_bucket_strict(Tail(buckets), size_bytes)
            ELSE IF ~bucket.has_max THEN bucket.folder
            ELSE IF size_bytes < bucket.max_mb * BytesPerMb THEN bucket.folder
            ELSE match_size_bucket_strict(Tail(buckets), size_bytes)

RECURSIVE match_size_bucket_from(_, _)
\* the loop of match_size_bucket over the remaining buckets; <<>> stands for None
match_size_bucket_from(buckets, size_bytes) ==
    IF buckets = <<>> THEN <<>>
    ELSE LET bucket == Head(buckets)
         IN IF ~bucket.has_folder THEN match_size_bucket_from(Tail(buckets), size_bytes)
            ELSE IF ~bucket.has_max THEN bucket.folder
            ELSE IF size_bytes <= bucket.max_mb * BytesPerMb THEN bucket.folder
            ELSE match_size_bucket_from(Tail(buckets), size_bytes)

match_size_bucket(rules, size_bytes) == match_size_bucket_from(rules.size_buckets, size_bytes)

\* Rules.date_parts of a modification time, given as the local date it falls on
date_parts(rules, dt) ==
    IF rules.by_date.group = "year" THEN <<ZeroPad(Decimal(dt.year), 4)>>
    ELSE IF rules.by_date.group = "day"
         THEN <<ZeroPad(Decimal(dt.year), 4), ZeroPad(Decimal(dt.month), 2), ZeroPad(Decimal(dt.day), 2)>>
    ELSE <<ZeroPad(Decimal(dt.year), 4), ZeroPad(Decimal(dt.month), 2)>>

----------------------------------------------------------------------------
(* organizer.py: compute_destination                                       *)

\* the size bucket put after the classification folder instead of first
compute_destination_bucket_last(F, path, dest_root, rules) ==
    LET matched == match_folder_for(rules, Name(path))
        folder == IF matched = <<>> THEN rules.unknown_folder ELSE matched
        parts1 == IF rules.by_date.enabled
                  THEN <<rules.by_date.base_folder>> \o date_parts(rules, F[path].mtime) \o <<folder>>
                  ELSE <<folder>>
        size_bucket == match_size_bucket(rules, F[path].size)
        parts == IF size_bucket # <<>> THEN parts1 \o <<size_bucket>> ELSE parts1
    IN Append(dest_root \o parts, Name(path))

compute_destination(F, path, dest_root, rules) ==
    LET matched == match_folder_for(rules, Name(path))
        folder == IF matched = <<>> THEN rules.unknown_folder ELSE matched
        parts1 == IF rules.by_date.enabled
                  THEN <<rules.by_date.base_folder>> \o date_parts(rules, F[path].mtime) \o <<folder>>
                  ELSE <<folder>>
        size_bucket == match_size_bucket(rules, F[path].size)
        parts == IF size_bucket # <<>> THEN <<size_bucket>> \o parts1 ELSE parts1
    IN Append(dest_root \o parts, Name(path))

----------------------------------------------------------------------------
(* The names, directories and rule sets of the model.                      *)

A_txt == <<"a", ".", "t", "x", "t">>
B_txt == <<"b", ".", "t", "x", "t">>
C_txt == <<"c", ".", "t", "x", "t">>
Old_txt == <<"o", "l", "d", ".", "t", "x", "t">>
HiddenName == <<".", "h">>
GitName == <<".", "g", "i", "t">>
PycacheName == <<"_", "_", "p", "y", "c", "a", "c", "h", "e", "_", "_">>
NodeModulesName == <<"n", "o", "d", "e", "_", "m", "o", "d", "u", "l", "e", "s">>
SubName == <<"s", "u", "b">>
Text == <<"T", "e", "x", "t">>
Others == <<"O", "t", "h", "e", "r", "s">>
Duplicates == <<"D", "u", "p", "l", "i", "c", "a", "t", "e", "s">>
ByDate == <<"B", "y", " ", "D", "a", "t", "e">>
Small == <<"S", "m", "a", "l", "l">>

SrcRoot == <<<<"s", "r", "c">>>>
DestRoot == <<<<"d", "s", "t">>>>
MissingRoot == <<<<"g", "o", "n", "e">>>>
WorkDir == <<<<"w">>>>
ManifestPath == Append(WorkDir, <<"u", ".", "j", "s", "o", "n">>)
\* undo_manifest = None
NoPath == <<>>

\* the rule set Rules.load builds from an empty configuration, with the given duplicate action
EmptyMap == [h \in {} |-> <<>>]

DefaultRules(dup) ==
    [unknown_folder |-> Others,
     exclude_dirs |-> {GitName, PycacheName, NodeModulesName},
     exclude_hidden |-> TRUE,
     prefer_extension_over_glob |-> TRUE,
     by_extension |-> EmptyMap,
     by_glob |-> <<>>,
     by_mime |-> <<>>,
     by_date |-> [enabled |-> FALSE, base_folder |-> ByDate, group |-> "month"],
     size_buckets |-> <<>>,
     duplicates |-> [action |-> dup, folder |-> Duplicates]]

\* the rules of a configuration that sends .txt files to the folder Text
TextRules(dup) == [DefaultRules(dup) EXCEPT !.by_extension = (ExtTxt :> Text)]

\* a rule set with a date rule, a size bucket and no hidden-file exclusion
DatedRules(dup) ==
    [TextRules(dup) EXCEPT
        !.exclude_hidden = FALSE,
        !.by_date = [enabled |-> TRUE, base_folder |-> ByDate, group |-> "month"],
        !.size_buckets = <<[has_max |-> TRUE, max_mb |-> 0, has_folder |-> TRUE, folder |-> Small]>>]

\* the default rule set without excluded directory names: only the hidden rule prunes
HiddenOnlyRules == [DefaultRules("separate") EXCEPT !.exclude_dirs = {}]

DupActions == {"skip", "separate", "hardlink"}
Modes == {"move", "copy", "hardlink"}
RuleSets == {TextRules(d) : d \in DupActions} \cup {DatedRules("separate"), HiddenOnlyRules}

\* the rules and modes organize is called with: every mode under the skip and the
\* separate policy, and mode move under the other rule sets (under the hardlink
\* policy line 113 places the files alike whatever the mode)
Calls ==
    {<<TextRules(d), mode>> : d \in {"skip", "separate"}, mode \in Modes}
        \cup {<<rules, "move">> : rules \in RuleSets}

June1 == [year |-> 2025, month |-> 6, day |-> 1]
File(i, h, sz) == [ino |-> i, hash |-> h, size |-> sz, mtime |-> June1]

\* the size of the source content of hash h: hash 1 is the empty content
SizeOf(h) == IF h = 1 THEN 0 ELSE 2

\* the source tree: a.txt, b.txt, a hidden file, sub/a.txt and .git/c.txt
SourceFiles(hb, hs) ==
    (Append(SrcRoot, A_txt) :> File(1, 1, 0))
    @@ (Append(SrcRoot, B_txt) :> File(2, hb, SizeOf(hb)))
    @@ (Append(SrcRoot, HiddenName) :> File(3, 1, 0))
    @@ (SrcRoot \o <<SubName, A_txt>> :> File(4, hs, SizeOf(hs)))
    @@ (SrcRoot \o <<GitName, C_txt>> :> File(5, 1, 0))

SourceDirs == {SrcRoot, Append(SrcRoot, SubName), Append(SrcRoot, GitName)}

\* files already in the destination tree, at names the run will want
DestFiles ==
    (DestRoot \o <<Text, A_txt>> :> File(6, 9, 1))
    @@ (DestRoot \o <<Duplicates, A_txt>> :> File(7, 9, 1))

DestDirs == {DestRoot, Append(DestRoot, Text), Append(DestRoot, Duplicates)}

\* a manifest left by an earlier run
StaleOps ==
    <<[src |-> Append(SrcRoot, Old_txt), dst |-> DestRoot \o <<Text, A_txt>>, action |-> "move"]>>

NoManifest == [exists |-> FALSE, valid |-> FALSE, ops |-> <<>>]

\* a manifest file that was opened for writing and not written to its end
BrokenManifest == [exists |-> TRUE, valid |-> FALSE, ops |-> <<>>]
NoRun == [src_root |-> <<>>, dest_root |-> <<>>, rules |-> DefaultRules("skip"),
          mode |-> "move", dry_run |-> FALSE, undo_manifest |-> NoPath, xdev |-> FALSE]
NoWalk == [files |-> {}, stack |-> <<>>]

\* the history at the start: fs0, dirs0, man0 are the files, directories and manifest
\* when organize was called, fsU and dirsU those when undo was called, planned the
\* destinations a dry run of the same call records for the files visited so far,
\* failed the file at which the loop of organize raised an I/O error
NoHistory(F, D, M) ==
    [fs0 |-> F, dirs0 |-> D, man0 |-> M, fsU |-> F, dirsU |-> D, planned |-> <<>>, failed |-> NoPath,
     organized |-> FALSE, external |-> 0, undos |-> 0]

Init ==
    /\ \E hb \in 1..MaxHash, hs \in 1..MaxHash, dest \in BOOLEAN :
          /\ fs = IF dest THEN SourceFiles(hb, hs) @@ DestFiles ELSE SourceFiles(hb, hs)
          /\ \E stale \in BOOLEAN :
                /\ manifest = IF stale THEN [exists |-> TRUE, valid |-> TRUE, ops |-> StaleOps] ELSE NoManifest
                /\ dirs = SourceDirs \cup (IF dest THEN DestDirs ELSE {})
                                     \cup (IF stale THEN {WorkDir} ELSE {})
    /\ pc = "idle"
    /\ err = ""
    /\ run = NoRun
    /\ walk = NoWalk
    /\ seen_hashes = EmptyMap
    /\ results = <<>>
    /\ undo_ops = <<>>
    /\ hist = NoHistory(fs, dirs, manifest)

----------------------------------------------------------------------------
(* organizer.py: organize                                                  *)

\* organize, lines 68-76: the validation, then the empty result list and hash index
OrganizeStart(src_root, dest_root, rules, mode, dry_run, undo_manifest, xdev) ==
    /\ pc = "idle"
    /\ run' = [src_root |-> src_root, dest_root |-> dest_root, rules |-> rules,
               mode |-> mode, dry_run |-> dry_run, undo_manifest |-> undo_manifest, xdev |-> xdev]
    /\ hist' = [hist EXCEPT !.fs0 = fs, !.dirs0 = dirs, !.man0 = manifest, !.planned = <<>>]
    /\ IF ~Exists(fs, dirs, src_root)
       THEN /\ pc' = "error"
            /\ err' = "FileNotFoundError"
            /\ UNCHANGED <<walk, seen_hashes, results>>
       ELSE IF within_dir(dest_root, src_root) \/ src_root = dest_root
       THEN /\ pc' = "error"
            /\ err' = "RuntimeError"
            /\ UNCHANGED <<walk, seen_hashes, results>>
       ELSE /\ pc' = "walking"
            /\ err' = ""
            /\ walk' = [files |-> {}, stack |-> <<src_root>>]
            /\ seen_hashes' = EmptyMap
            /\ results' = <<>>
    /\ UNCHANGED <<fs, dirs, manifest, undo_ops>>

\* organize, lines 68-72: exists() or resolve() raises PermissionError, a directory
\* above the source or the destination cannot be searched; nothing was done
OrganizeStartFails(src_root, dest_root, rules, mode, dry_run, undo_manifest, xdev) ==
    /\ pc = "idle"
    /\ run' = [src_root |-> src_root, dest_root |-> dest_root, rules |-> rules,
               mode |-> mode, dry_run |-> dry_run, undo_manifest |-> undo_manifest, xdev |-> xdev]
    /\ hist' = [hist EXCEPT !.fs0 = fs, !.dirs0 = dirs, !.man0 = manifest, !.planned = <<>>]
    /\ pc' = "error"
    /\ err' = "PermissionError"
    /\ UNCHANGED <<fs, dirs, manifest, walk, seen_hashes, results, undo_ops>>

\* the orders in which a directory listing may give the entries of S
Orderings(S) == {s \in [1..Cardinality(S) -> S] : Range(s) = S}

\* _walk_files, line 26: the directory name d is removed from the descent
Pruned(rules, d) ==
    d \in rules.exclude_dirs \/ (rules.exclude_hidden /\ StartsWith(d, <<".">>))

\* _walk_files: a file name is not yielded
SkippedFile(rules, name) == rules.exclude_hidden /\ StartsWith(name, <<".">>)

\* _walk_files, one iteration of os.walk: list the next directory, prune its
\* subdirectories and queue them, in the order of the listing. os.walk is called
\* without onerror: when the listing fails (listed is FALSE: the directory cannot
\* be read, or the path is not a directory) the walk passes over it in silence
WalkDir(listed) ==
    /\ pc = "walking"
    /\ walk.files = {}
    /\ walk.stack # <<>>
    /\ LET top == Head(walk.stack)
           subdirs == {d \in dirs : Len(d) = Len(top) + 1 /\ Parent(d) = top
                                     /\ ~Pruned(run.rules, Name(d))}
           filenames == {p \in DOMAIN fs : Parent(p) = top /\ ~SkippedFile(run.rules, Name(p))}
       IN /\ listed => top \in dirs
          /\ IF listed
             THEN \E order \in Orderings(subdirs) :
                     walk' = [files |-> filenames, stack |-> order \o Tail(walk.stack)]
             ELSE walk' = [files |-> {}, stack |-> Tail(walk.stack)]
    /\ UNCHANGED <<fs, dirs, manifest, pc, err, run, seen_hashes, results, undo_ops, hist>>

\* no content counts as seen
IsDuplicateNever(seen, file_hash) == FALSE

\* organize, line 87: the content of the file was seen earlier in this run
IsDuplicate(seen, file_hash) == file_hash \in DOMAIN seen

\* the duplicate policy leaves the computed destination as it is
DuplicateDestinationKept(f, dst, seen) == dst

\* organize, lines 86-99: the destination after the duplicate policy
DuplicateDestination(f, dst, seen) ==
    LET rules == run.rules
    IN IF IsDuplicate(seen, fs[f].hash) /\ rules.duplicates.action = "separate"
       THEN run.dest_root \o <<rules.duplicates.folder, Name(f)>>
       ELSE IF IsDuplicate(seen, fs[f].hash) /\ rules.duplicates.action = "hardlink"
       THEN run.dest_root \o <<rules.duplicates.folder, Name(seen[fs[f].hash])>>
       ELSE dst

\* organize, line 101: the hash index after a file that was not skipped
RecordSeen(seen, file_hash, f) ==
    [h \in DOMAIN seen \cup {file_hash} |-> IF h = file_hash THEN f ELSE seen[h]]

\* every plan is reported as a move
PlanActionMove(mode) == "plan-move"

\* organize, line 107: the action a dry run records
PlanAction(mode) ==
    IF mode = "move" THEN "plan-move" ELSE IF mode = "copy" THEN "plan-copy" ELSE "plan-hardlink"

\* organize, line 113: the mode handed to safe_link_or_copy
PlacementMode(mode, rules) == IF rules.duplicates.action # "hardlink" THEN mode ELSE "hardlink"

\* organize, lines 79-115: the loop body for the file f the walk yields
OrganizeFile(f, link_ok) ==
    /\ pc = "walking"
    /\ f \in walk.files
    /\ run.xdev => ~link_ok
    /\ walk' = [walk EXCEPT !.files = @ \ {f}]
    /\ LET rules == run.rules
           file_hash == fs[f].hash
           dst == DuplicateDestination(f, compute_destination(fs, f, run.dest_root, rules), seen_hashes)
           final_dst == next_nonconflicting_name(fs, dirs, dst)
           made == ensure_dir(dirs, Parent(final_dst))
           mode == PlacementMode(run.mode, rules)
           planned == next_nonconflicting_name(hist.fs0, hist.dirs0, dst)
       IN IF IsDuplicate(seen_hashes, file_hash) /\ rules.duplicates.action = "skip"
          THEN /\ results' = Append(results, [src |-> f, dst |-> NoPath, action |-> "skip-duplicate"])
               /\ hist' = [hist EXCEPT !.planned = Append(@, NoPath)]
               /\ UNCHANGED <<fs, dirs, seen_hashes>>
          ELSE /\ seen_hashes' = RecordSeen(seen_hashes, file_hash, f)
               /\ hist' = [hist EXCEPT !.planned = Append(@, planned)]
               /\ IF run.dry_run
                  THEN /\ results' = Append(results, [src |-> f, dst |-> final_dst,
                                                      action |-> PlanAction(run.mode)])
                       /\ UNCHANGED <<fs, dirs>>
                  ELSE /\ dirs' = made
                       /\ fs' = safe_link_or_copy(fs, made, f, final_dst, mode, link_ok, ~run.xdev)
                       /\ results' = Append(results, [src |-> f, dst |-> final_dst,
                                                      action |-> PlacedAction(mode, link_ok)])
    /\ UNCHANGED <<manifest, pc, err, run, undo_ops>>

\* organize, lines 82-104: the name the loop body resolves for the file f
PlacementTarget(f) ==
    next_nonconflicting_name(fs, dirs,
        DuplicateDestination(f, compute_destination(fs, f, run.dest_root, run.rules), seen_hashes))

\* organize, lines 79-113: the loop body raises an I/O error on the file f, which
\* nothing catches; the records, the hash index and the walk are lost with the call. m is the depth down to which ensure_dir made the directories of
\* the destination (0 when the error came before: in stat, in hash_file, or in the
\* log_fn of a skip or of a plan), k is -1 when safe_link_or_copy left no file, else
\* the number of bytes copy2 had written to the destination, stat whether the times
\* had been copied
OrganizeFileFails(f, m, k, stat) ==
    /\ pc = "walking"
    /\ f \in walk.files
    /\ LET final_dst == PlacementTarget(f)
           skipped == IsDuplicate(seen_hashes, fs[f].hash) /\ run.rules.duplicates.action = "skip"
       IN /\ m \in 0..Len(Parent(final_dst))
          /\ m > 0 => ~run.dry_run /\ ~skipped
          /\ k >= 0 => m = Len(Parent(final_dst)) /\ k <= fs[f].size
          /\ (stat /\ k >= 0) => k = fs[f].size
          /\ dirs' = ensure_dir_upto(dirs, Parent(final_dst), m)
          /\ fs' = IF k >= 0 THEN PartialCopy(fs, f, final_dst, k, stat) ELSE fs
    /\ pc' = "error"
    /\ err' = "OSError"
    /\ hist' = [hist EXCEPT !.failed = f, !.planned = <<>>]
    /\ walk' = NoWalk
    /\ seen_hashes' = EmptyMap
    /\ results' = <<>>
    /\ UNCHANGED <<manifest, run, undo_ops>>

\* organize, lines 112-115: the file f is placed, then log_fn raises an I/O error
\* and the run ends with the placement done and no record returned
OrganizeFileLogFails(f, link_ok) ==
    /\ pc = "walking"
    /\ f \in walk.files
    /\ ~run.dry_run
    /\ ~(IsDuplicate(seen_hashes, fs[f].hash) /\ run.rules.duplicates.action = "skip")
    /\ run.xdev => ~link_ok
    /\ LET final_dst == PlacementTarget(f)
           made == ensure_dir(dirs, Parent(final_dst))
       IN /\ dirs' = made
          /\ fs' = safe_link_or_copy(fs, made, f, final_dst, PlacementMode(run.mode, run.rules),
                                     link_ok, ~run.xdev)
    /\ pc' = "error"
    /\ err' = "OSError"
    /\ hist' = [hist EXCEPT !.failed = f, !.planned = <<>>]
    /\ walk' = NoWalk
    /\ seen_hashes' = EmptyMap
    /\ results' = <<>>
    /\ UNCHANGED <<manifest, run, undo_ops>>

UndoableActions == {"move", "copy", "hardlink"}

\* every record goes to the manifest
SerializableAll(res) == res

\* organize, line 120: the operations the manifest holds
Serializable(res) == SelectSeqBy(res, UndoableActions)

\* organize, lines 117-123: the walk is over; write the manifest and return
OrganizeFinish ==
    /\ pc = "walking"
    /\ walk.files = {}
    /\ walk.stack = <<>>
    /\ pc' = "organized"
    /\ IF ~run.dry_run /\ run.undo_manifest # NoPath
       THEN /\ dirs' = ensure_dir(dirs, Parent(run.undo_manifest))
            /\ manifest' = [exists |-> TRUE, valid |-> TRUE, ops |-> Serializable(results)]
            /\ hist' = [hist EXCEPT !.organized = TRUE]
       ELSE UNCHANGED <<dirs, manifest, hist>>
    /\ UNCHANGED <<fs, err, run, walk, seen_hashes, results, undo_ops>>

\* organize, lines 118-122: the walk is over and writing the manifest raises an I/O
\* error. m is the depth down to which ensure_dir made the manifest's directory;
\* written is "no" when the file could not be opened, "part" when it was opened
\* (and so emptied) and not written to its end, "all" when it was written and the
\* log_fn after it raised
OrganizeFinishFails(m, written) ==
    /\ pc = "walking"
    /\ walk.files = {}
    /\ walk.stack = <<>>
    /\ ~run.dry_run
    /\ run.undo_manifest # NoPath
    /\ m \in 0..Len(Parent(run.undo_manifest))
    /\ written # "no" => m = Len(Parent(run.undo_manifest))
    /\ dirs' = ensure_dir_upto(dirs, Parent(run.undo_manifest), m)
    /\ manifest' = IF written = "no" THEN manifest
                   ELSE IF written = "part" THEN BrokenManifest
                   ELSE [exists |-> TRUE, valid |-> TRUE, ops |-> Serializable(results)]
    /\ pc' = "error"
    /\ err' = "OSError"
    /\ hist' = [hist EXCEPT !.planned = <<>>]
    /\ walk' = NoWalk
    /\ seen_hashes' = EmptyMap
    /\ results' = <<>>
    /\ UNCHANGED <<fs, run, undo_ops>>

\* an outside party deletes a file the run placed, between organize and undo
ExternalDelete(p) ==
    /\ pc = "organized"
    /\ hist.organized
    /\ hist.external < MaxExternal
    /\ p \in DOMAIN fs
    /\ \E i \in 1..Len(manifest.ops) : manifest.ops[i].dst = p
    /\ fs' = [q \in DOMAIN fs \ {p} |-> fs[q]]
    /\ hist' = [hist EXCEPT !.external = @ + 1]
    /\ UNCHANGED <<dirs, manifest, pc, err, run, walk, seen_hashes, results, undo_ops>>

----------------------------------------------------------------------------
(* organizer.py: undo                                                      *)

\* the operations replayed first to last
ReplayForward(ops) == ops

\* undo, line 135: the order in which the operations are replayed
ReplayOrder(ops) == Reverse(ops)

\* only a directory counts as present
UndoSourceNotDir(F, D, src) == src \notin D

\* undo, line 138: the file to restore is gone
UndoSourceMissing(F, D, src) == ~Exists(F, D, src)

\* undo, lines 129-134: the manifest must exist; load its operations
UndoStart ==
    /\ pc \in {"idle", "organized", "undone"}
    /\ hist.undos < MaxUndo
    /\ hist' = [hist EXCEPT !.undos = @ + 1, !.fsU = fs, !.dirsU = dirs]
    /\ IF ~manifest.exists
       THEN /\ pc' = "error"
            /\ err' = "FileNotFoundError"
            /\ UNCHANGED <<results, undo_ops>>
       ELSE IF ~manifest.valid
       THEN /\ pc' = "error"
            /\ err' = "JSONDecodeError"
            /\ UNCHANGED <<results, undo_ops>>
       ELSE /\ pc' = "undoing"
            /\ err' = ""
            /\ undo_ops' = ReplayOrder(manifest.ops)
            /\ results' = <<>>
    /\ UNCHANGED <<fs, dirs, manifest, run, walk, seen_hashes>>

\* undo, lines 129-131: exists() or read_text raises PermissionError, the manifest
\* or a directory above it cannot be read; nothing was done
UndoStartFails ==
    /\ pc \in {"idle", "organized", "undone"}
    /\ hist.undos < MaxUndo
    /\ hist' = [hist EXCEPT !.undos = @ + 1, !.fsU = fs, !.dirsU = dirs]
    /\ pc' = "error"
    /\ err' = "PermissionError"
    /\ results' = <<>>
    /\ undo_ops' = <<>>
    /\ UNCHANGED <<fs, dirs, manifest, run, walk, seen_hashes>>

\* undo, lines 135-146: the loop body for the next operation
UndoStep ==
    /\ pc = "undoing"
    /\ undo_ops # <<>>
    /\ undo_ops' = Tail(undo_ops)
    /\ LET rec == Head(undo_ops)
           src == rec.dst
           dst == rec.src
           made == ensure_dir(dirs, Parent(dst))
           final_dst == next_nonconflicting_name(fs, made, dst)
       IN IF UndoSourceMissing(fs, dirs, src)
          THEN UNCHANGED <<fs, dirs, results>>
          ELSE /\ ~run.xdev
               /\ dirs' = made
               /\ fs' = Move(fs, src, final_dst)
               /\ results' = Append(results, [src |-> src, dst |-> final_dst, action |-> "undo"])
    /\ UNCHANGED <<manifest, pc, err, run, walk, seen_hashes, hist>>

\* undo, lines 135-146: the loop body raises an I/O error on the next operation and
\* undo ends there. m is the depth down to which ensure_dir made the directories of
\* the original path; moved tells whether os.replace was done (the log_fn after it
\* raised) or not (log_fn of a missing file, ensure_dir or os.replace raised: across
\* two filesystems os.replace always does)
UndoStepFails(m, moved) ==
    /\ pc = "undoing"
    /\ undo_ops # <<>>
    /\ LET rec == Head(undo_ops)
           src == rec.dst
           dst == rec.src
           made == ensure_dir(dirs, Parent(dst))
           final_dst == next_nonconflicting_name(fs, made, dst)
       IN /\ m \in 0..Len(Parent(dst))
          /\ UndoSourceMissing(fs, dirs, src) => m = 0 /\ ~moved
          /\ moved => m = Len(Parent(dst)) /\ ~run.xdev
          /\ dirs' = ensure_dir_upto(dirs, Parent(dst), m)
          /\ fs' = IF moved THEN Move(fs, src, final_dst) ELSE fs
    /\ pc' = "error"
    /\ err' = "OSError"
    /\ results' = <<>>
    /\ undo_ops' = <<>>
    /\ UNCHANGED <<manifest, run, walk, seen_hashes, hist>>

\* undo, line 147: every operation was replayed; return
UndoFinish ==
    /\ pc = "undoing"
    /\ undo_ops = <<>>
    /\ pc' = "undone"
    /\ UNCHANGED <<fs, dirs, manifest, err, run, walk, seen_hashes, results, undo_ops, hist>>

----------------------------------------------------------------------------

\* a source path that is a regular file
FileRoot == Append(SrcRoot, A_txt)

SrcRoots == {SrcRoot, MissingRoot, FileRoot}
DestRoots == {DestRoot, SrcRoot, Append(SrcRoot, SubName)}

Next ==
    \/ \E src_root \in SrcRoots, dest_root \in DestRoots, call \in Calls,
          dry_run \in BOOLEAN, undo_manifest \in {NoPath, ManifestPath}, xdev \in BOOLEAN :
          OrganizeStart(src_root, dest_root, call[1], call[2], dry_run, undo_manifest, xdev)
    \/ \E src_root \in SrcRoots, dest_root \in DestRoots, call \in Calls,
          dry_run \in BOOLEAN, undo_manifest \in {NoPath, ManifestPath}, xdev \in BOOLEAN :
          OrganizeStartFails(src_root, dest_root, call[1], call[2], dry_run, undo_manifest, xdev)
    \/ \E listed \in BOOLEAN : WalkDir(listed)
    \/ \E f \in DOMAIN fs, link_ok \in BOOLEAN : OrganizeFile(f, link_ok)
    \/ \E f \in walk.files \cap DOMAIN fs :
          \E m \in 0..Len(Parent(PlacementTarget(f))), k \in -1..fs[f].size, stat \in BOOLEAN :
             OrganizeFileFails(f, m, k, stat)
    \/ \E f \in DOMAIN fs, link_ok \in BOOLEAN : OrganizeFileLogFails(f, link_ok)
    \/ OrganizeFinish
    \/ \E m \in 0..Len(ManifestPath), written \in {"no", "part", "all"} : OrganizeFinishFails(m, written)
    \/ \E p \in DOMAIN fs : ExternalDelete(p)
    \/ UndoStart
    \/ UndoStartFails
    \/ UndoStep
    \/ \E m \in 0..Len(SrcRoot \o <<SubName>>), moved \in BOOLEAN : UndoStepFails(m, moved)
    \/ UndoFinish

Spec == Init /\ [][Next]_vars

----------------------------------------------------------------------------
(* The conflict namer on its own: calls of next_nonconflicting_name on a   *)
(* directory that holds any of a few names, and the caller creating the    *)
(* name it was given.                                                      *)

NamerDir == <<<<"n">>>>
A1_txt == <<"a", "(", "1", ")", ".", "t", "x", "t">>
A2_txt == <<"a", "(", "2", ")", ".", "t", "x", "t">>
Hidden1 == <<".", "h", "(", "1", ")">>
NamerNames == {A_txt, A1_txt, A2_txt, HiddenName, Hidden1}
NamerArgs == {Append(NamerDir, A_txt), Append(NamerDir, HiddenName), Append(NamerDir, A1_txt)}

NamerInit ==
    /\ \E names \in SUBSET NamerNames :
          fs = [p \in {Append(NamerDir, n) : n \in names} |-> File(1, 1, 0)]
    /\ dirs = {NamerDir}
    /\ manifest = NoManifest
    /\ pc = "namer"
    /\ err = ""
    /\ run = NoRun
    /\ walk = NoWalk
    /\ seen_hashes = EmptyMap
    /\ results = <<>>
    /\ undo_ops = <<>>
    /\ hist = NoHistory(fs, dirs, manifest)

\* a call next_nonconflicting_name(dst); the record keeps the argument, the value
\* returned and the paths that existed
NamerCall(dst) ==
    /\ pc = "namer"
    /\ Len(results) < MaxCalls
    /\ results' = Append(results, [arg |-> dst,
                                   ret |-> next_nonconflicting_name(fs, dirs, dst),
                                   files |-> DOMAIN fs])
    /\ UNCHANGED <<fs, dirs, manifest, pc, err, run, walk, seen_hashes, undo_ops, hist>>

\* the caller creates a file at the path the last call returned
NamerCreate ==
    /\ pc = "namer"
    /\ results # <<>>
    /\ results[Len(results)].ret \notin DOMAIN fs
    /\ fs' = [p \in DOMAIN fs \cup {results[Len(results)].ret} |->
                 IF p \in DOMAIN fs THEN fs[p] ELSE File(NewIno(fs), 1, 0)]
    /\ UNCHANGED <<dirs, manifest, pc, err, run, walk, seen_hashes, results, undo_ops, hist>>

NamerNext ==
    \/ \E dst \in NamerArgs : NamerCall(dst)
    \/ NamerCreate

NamerSpec == NamerInit /\ [][NamerNext]_vars

----------------------------------------------------------------------------
(* The rule resolver on its own: compute_destination, match_folder_for and *)
(* match_size_bucket on one file, for a range of rule sets, names, sizes   *)
(* and dates.                                                              *)

A_TXT == <<"A", ".", "T", "X", "T">>
B_jpg == <<"b", ".", "j", "p", "g">>
Readme == <<"r", "e", "a", "d", "m", "e">>
C_dat == <<"c", ".", "d", "a", "t">>
GlobA == <<"G", "l", "o", "b", "A">>
GlobT == <<"G", "l", "o", "b", "T">>
AllFiles == <<"A", "l", "l">>
Docs == <<"D", "o", "c", "s">>
Te == <<"T", "e">>
Images == <<"I", "m", "a", "g", "e", "s">>
Empty == <<"E", "m", "p", "t", "y">>
Big == <<"B", "i", "g">>
Dec25 == [year |-> 2024, month |-> 12, day |-> 25]

ResolverNames == {A_txt, A_TXT, B_jpg, Readme, C_dat, HiddenName}
ResolverSizes == {0, 1, BytesPerMb, BytesPerMb + 1}
ResolverDates == {June1, Dec25}
ExtensionMaps == {[e \in {} |-> <<>>], (ExtTxt :> Text)}
GlobMaps ==
    {<<>>,
     <<[pattern |-> <<"a", "*">>, folder |-> GlobA], [pattern |-> <<"*", ".", "t", "x", "t">>, folder |-> GlobT]>>,
     <<[pattern |-> <<"*", ".", "?", "?", "g">>, folder |-> GlobT], [pattern |-> <<"*">>, folder |-> AllFiles]>>}
MimeMaps ==
    {<<>>,
     <<[prefix |-> <<"t", "e", "x", "t", "/">>, folder |-> Docs], [prefix |-> <<"t", "e">>, folder |-> Te]>>,
     <<[prefix |-> <<"i", "m", "a", "g", "e", "/">>, folder |-> Images], [prefix |-> <<>>, folder |-> Te]>>}
DateRules ==
    {[enabled |-> FALSE, base_folder |-> ByDate, group |-> "month"]}
    \cup {[enabled |-> TRUE, base_folder |-> ByDate, group |-> g] : g \in {"year", "month", "day"}}
BucketLists ==
    {<<>>,
     <<[has_max |-> TRUE, max_mb |-> 0, has_folder |-> TRUE, folder |-> Empty],
       [has_max |-> TRUE, max_mb |-> 1, has_folder |-> TRUE, folder |-> Small]>>,
     <<[has_max |-> TRUE, max_mb |-> 1, has_folder |-> TRUE, folder |-> Small],
       [has_max |-> FALSE, max_mb |-> 0, has_folder |-> TRUE, folder |-> Big],
       [has_max |-> TRUE, max_mb |-> 0, has_folder |-> TRUE, folder |-> Empty]>>,
     <<[has_max |-> TRUE, max_mb |-> 0, has_folder |-> FALSE, folder |-> <<>>],
       [has_max |-> FALSE, max_mb |-> 0, has_folder |-> TRUE, folder |-> Big]>>}

ResolverInit ==
    /\ \E name \in ResolverNames, size \in ResolverSizes, date \in ResolverDates :
          fs = (Append(SrcRoot, name) :> [File(1, 1, size) EXCEPT !.mtime = date])
    /\ \E ext \in ExtensionMaps, glob \in GlobMaps, mime \in MimeMaps, date \in DateRules,
          buckets \in BucketLists :
          run = [NoRun EXCEPT !.src_root = SrcRoot, !.dest_root = DestRoot,
                              !.rules = [DefaultRules("separate") EXCEPT
                                            !.by_extension = ext, !.by_glob = glob, !.by_mime = mime,
                                            !.by_date = date, !.size_buckets = buckets]]
    /\ dirs = {SrcRoot}
    /\ manifest = NoManifest
    /\ pc = "resolver"
    /\ err = ""
    /\ walk = NoWalk
    /\ seen_hashes = EmptyMap
    /\ results = <<>>
    /\ undo_ops = <<>>
    /\ hist = NoHistory(fs, dirs, manifest)

\* the calls organize makes for the file: its destination, and beside it the values
\* of match_folder_for and match_size_bucket
Resolve(path) ==
    /\ pc = "resolver"
    /\ path \in DOMAIN fs
    /\ results' = <<[src |-> path,
                     dst |-> compute_destination(fs, path, run.dest_root, run.rules),
                     matched |-> match_folder_for(run.rules, Name(path)),
                     bucket |-> match_size_bucket(run.rules, fs[path].size)]>>
    /\ pc' = "resolved"
    /\ UNCHANGED <<fs, dirs, manifest, err, run, walk, seen_hashes, undo_ops, hist>>

ResolverNext == \E path \in DOMAIN fs : Resolve(path)

ResolverSpec == ResolverInit /\ [][ResolverNext]_vars

----------------------------------------------------------------------------
(* Auxiliary notions of the properties.                                    *)

\* p is the path base or one of its counter-suffixed variants <stem>(k)<ext>
IsNameOrVariant(p, base) ==
    p = base \/ \E k \in 1..(Cardinality(DOMAIN fs) + 1) : p = Candidate(base, k)

\* the paths of the files under the directory root
Under(F, root) == {p \in DOMAIN F : StartsWith(p, root)}

\* a live organize wrote its manifest, undo replayed it once, nothing else touched the files
RoundTripDone ==
    /\ pc = "undone"
    /\ hist.organized
    /\ hist.undos = 1
    /\ hist.external = 0

\* the content of the source file of the i-th record was met earlier in the run
SeenEarlier(i) ==
    \E j \in 1..(i - 1) : hist.fs0[results[j].src].hash = hist.fs0[results[i].src].hash

\* the first record of the run with the content of the i-th
FirstOfGroup(i) ==
    CHOOSE j \in 1..i :
        /\ hist.fs0[results[j].src].hash = hist.fs0[results[i].src].hash
        /\ \A k \in 1..(j - 1) : hist.fs0[results[k].src].hash # hist.fs0[results[i].src].hash

InOrganize == pc \in {"walking", "organized"}

----------------------------------------------------------------------------
\* the manifest's moved files are back at their source paths, unchanged, no recorded
\* destination exists any more, and the destination tree holds what it held before
MovedFilesBack ==
    /\ \A i \in 1..Len(manifest.ops) :
          /\ manifest.ops[i].action = "move" =>
                /\ manifest.ops[i].src \in DOMAIN fs
                /\ fs[manifest.ops[i].src].hash = hist.fs0[manifest.ops[i].src].hash
          /\ manifest.ops[i].dst \notin DOMAIN fs
    /\ Under(fs, run.dest_root) = Under(hist.fs0, run.dest_root)

\* undo of the manifest a live organize wrote was called once, with no outside
\* change, and has ended: it returned, or it raised in its loop
RoundTripEnded ==
    /\ pc = "undone" \/ (pc = "error" /\ err = "OSError")
    /\ hist.organized
    /\ hist.undos = 1
    /\ hist.external = 0

(* C1: after a live organize in mode move that wrote a manifest, and undo  *)
(* of that manifest with no outside change, every file whose record had    *)
(* action "move" is back at its original source path and no file the run   *)
(* placed remains in the destination tree; stated for a destination on     *)
(* another filesystem than the source, where organize moves by copying.    *)
RoundTripAcrossFilesystems ==
    (RoundTripEnded /\ run.mode = "move" /\ run.xdev /\ manifest.ops # <<>>) => MovedFilesBack

(* C2: under duplicates.action = "hardlink", every file after the first of *)
(* its content group gets the destination                                  *)
(* destRoot/<duplicates.folder>/<name of the first visited file of the     *)
(* group>, up to the conflict suffix (the hash index maps the content to   *)
(* the first-seen source path during the whole run).                       *)
HardlinkNamedAfterFirst ==
    (InOrganize /\ run.rules.duplicates.action = "hardlink") =>
        \A i \in 1..Len(results) :
            SeenEarlier(i) =>
                IsNameOrVariant(results[i].dst,
                                run.dest_root \o <<run.rules.duplicates.folder,
                                                   Name(results[FirstOfGroup(i)].src)>>)

(* C3: under duplicates.action = "separate", every file after the first of *)
(* its content group gets a destination directly in                        *)
(* destRoot/<duplicates.folder>, named as the file or a counter-suffixed   *)
(* variant of its name, at a path where no file was present: none before   *)
(* the run and, in a live run, none placed earlier; the live run puts the  *)
(* file's content there.                                                   *)
SeparateDuplicates ==
    (InOrganize /\ run.rules.duplicates.action = "separate") =>
        \A i \in 1..Len(results) :
            SeenEarlier(i) =>
                /\ Parent(results[i].dst) = Append(run.dest_root, run.rules.duplicates.folder)
                /\ IsNameOrVariant(results[i].dst,
                                   run.dest_root \o <<run.rules.duplicates.folder, Name(results[i].src)>>)
                /\ results[i].dst \notin DOMAIN hist.fs0
                /\ ~run.dry_run => \A j \in 1..(i - 1) : results[j].dst # results[i].dst
                /\ (~run.dry_run /\ hist.external = 0) =>
                      /\ results[i].dst \in DOMAIN fs
                      /\ fs[results[i].dst].hash = hist.fs0[results[i].src].hash

\* a live run put two duplicates named a.txt beside an a.txt already in the folder
SeparateDuplicatesWitness ==
    /\ pc = "organized"
    /\ run.rules.duplicates.action = "separate"
    /\ ~run.dry_run
    /\ DestRoot \o <<Duplicates, A_txt>> \in DOMAIN hist.fs0
    /\ \E i, j \in 1..Len(results) :
          /\ SeenEarlier(i) /\ SeenEarlier(j)
          /\ results[i].dst = Candidate(DestRoot \o <<Duplicates, A_txt>>, 1)
          /\ results[j].dst = Candidate(DestRoot \o <<Duplicates, A_txt>>, 2)


\* the step of organize on a file whose content an earlier record of the run has,
\* under the skip policy, when the step does not raise: one skip-duplicate record
\* and nothing else
SkipStep ==
    (/\ pc = "walking"
     /\ pc' = "walking"
     /\ run.rules.duplicates.action = "skip"
     /\ walk'.files # walk.files
     /\ walk.files # {}
     /\ \E f \in walk.files \ walk'.files :
           \E j \in 1..Len(results) : hist.fs0[results[j].src].hash = fs[f].hash)
    => /\ fs' = fs
       /\ dirs' = dirs
       /\ manifest' = manifest
       /\ \E f \in walk.files \ walk'.files :
             results' = Append(results, [src |-> f, dst |-> NoPath, action |-> "skip-duplicate"])

(* C4: under duplicates.action = "skip", processing a file whose content   *)
(* was met earlier in the run appends exactly one record, with action      *)
(* "skip-duplicate", and changes no file, no directory and not the         *)
(* manifest; the manifest the run writes holds no such record.             *)
SkipDuplicateUntouched ==
    /\ [][SkipStep]_vars
    /\ [](hist.organized => \A i \in 1..Len(manifest.ops) : manifest.ops[i].action # "skip-duplicate")

\* a live run with a manifest skipped a duplicate, which is still at its source path
SkipDuplicateWitness ==
    /\ pc = "organized"
    /\ run.rules.duplicates.action = "skip"
    /\ hist.organized
    /\ \E i \in 1..Len(results) :
          /\ results[i].action = "skip-duplicate"
          /\ results[i].src \in DOMAIN fs
    /\ Len(manifest.ops) < Len(results)
    /\ Len(manifest.ops) >= 1

(* C5: during and after a dry run the files, the directories and the       *)
(* manifest are those before the call, and every record has the plan       *)
(* action of the requested mode, or "skip-duplicate".                      *)
DryRunFrame ==
    (InOrganize /\ run.dry_run) =>
        /\ fs = hist.fs0
        /\ dirs = hist.dirs0
        /\ manifest = hist.man0
        /\ \A i \in 1..Len(results) :
              \/ results[i].action = "skip-duplicate"
              \/ run.mode = "move" /\ results[i].action = "plan-move"
              \/ run.mode = "copy" /\ results[i].action = "plan-copy"
              \/ run.mode = "hardlink" /\ results[i].action = "plan-hardlink"

\* a dry run in mode copy planned three files beside an older manifest
DryRunWitness ==
    /\ pc = "organized"
    /\ run.dry_run
    /\ run.mode = "copy"
    /\ run.undo_manifest # NoPath
    /\ hist.man0.exists
    /\ Len(results) >= 3
    /\ \E i \in 1..Len(results) : results[i].action = "plan-copy"

\* the call of organize has a source that is no directory, or a destination
\* inside or equal to the source
InvalidCall ==
    \/ run.src_root \notin hist.dirs0
    \/ run.dest_root = run.src_root
    \/ /\ Len(run.dest_root) > Len(run.src_root)
       /\ SubSeq(run.dest_root, 1, Len(run.src_root)) = run.src_root

(* C6: organize raises an error when the source directory does not exist   *)
(* or the destination is inside or equal to the source, undo raises an     *)
(* error when the manifest does not exist; then no file is visited and     *)
(* files, directories and manifest are unchanged.                          *)
FailFast ==
    /\ (pc # "idle" /\ hist.undos = 0 /\ InvalidCall) =>
          /\ pc = "error"
          /\ results = <<>> /\ walk = NoWalk
          /\ fs = hist.fs0 /\ dirs = hist.dirs0 /\ manifest = hist.man0
    /\ (hist.undos > 0 /\ ~manifest.exists) =>
          /\ pc = "error"
          /\ results = <<>> /\ undo_ops = <<>>
          /\ fs = hist.fsU /\ dirs = hist.dirsU

(* C7: when a live organize given a manifest path has returned, the        *)
(* manifest holds exactly the records of the result list whose action is   *)
(* "move", "copy" or "hardlink", in the order of the list, whatever it     *)
(* held before.                                                            *)
ManifestIsAppliedOps ==
    (pc = "organized" /\ ~run.dry_run /\ run.undo_manifest # NoPath) =>
        /\ manifest.exists
        /\ manifest.ops = SelectSeq(results, LAMBDA r : r.action \in {"move", "copy", "hardlink"})
        /\ \A i \in 1..Len(manifest.ops) :
              manifest.ops[i].action \in {"move", "copy", "hardlink"}

\* the run replaced an older manifest and left a skipped duplicate out of the new one
ManifestWitness ==
    /\ pc = "organized"
    /\ ~run.dry_run
    /\ run.undo_manifest # NoPath
    /\ hist.man0.exists
    /\ manifest.ops # hist.man0.ops
    /\ Len(manifest.ops) >= 2
    /\ \E i \in 1..Len(results) : results[i].action = "skip-duplicate"


(* C8: undo replays the manifest from its last operation to its first:     *)
(* the records it returns are, in that order, one per operation whose      *)
(* destination file existed, with action "undo", the operation's dst as    *)
(* source and the operation's src, or a counter-suffixed variant of it,    *)
(* as target.                                                              *)
UndoIsReverse ==
    (pc \in {"undoing", "undone"}) =>
        LET n == Len(manifest.ops)
            done == n - Len(undo_ops)
            replayed == [k \in 1..done |-> manifest.ops[n + 1 - k]]
            restored == SelectSeq(replayed, LAMBDA r : r.dst \in DOMAIN hist.fsU)
        IN /\ Len(results) = Len(restored)
           /\ \A k \in 1..Len(results) :
                 /\ results[k].action = "undo"
                 /\ results[k].src = restored[k].dst
                 /\ IsNameOrVariant(results[k].dst, restored[k].src)

\* undo restored three files, the last placed first
UndoIsReverseWitness ==
    /\ pc = "undone"
    /\ hist.organized
    /\ Len(manifest.ops) >= 3
    /\ Len(results) = Len(manifest.ops)
    /\ results[1].src = manifest.ops[Len(manifest.ops)].dst
    /\ results[1].src # manifest.ops[1].dst

\* the step of undo on one operation: restored and recorded when its destination
\* file exists and the step does not raise, passed over without any change of
\* the filesystem when it is gone
UndoEntryStep ==
    (pc = "undoing" /\ undo_ops # <<>> /\ undo_ops' # undo_ops) =>
        IF Head(undo_ops).dst \in DOMAIN fs
        THEN pc' = "undoing" =>
                /\ Len(results') = Len(results) + 1
                /\ results'[Len(results')].src = Head(undo_ops).dst
                /\ Head(undo_ops).dst \notin DOMAIN fs'
                /\ results'[Len(results')].dst \in DOMAIN fs'
                /\ results'[Len(results')].dst \notin DOMAIN fs
                /\ fs'[results'[Len(results')].dst] = fs[Head(undo_ops).dst]
        ELSE /\ fs' = fs
             /\ dirs' = dirs
             /\ pc' = "undoing" => results' = results

(* C9: an operation whose destination file is gone is skipped by undo      *)
(* with no record and no change of the filesystem, every other operation   *)
(* is restored and recorded, and undo returns: its records are those of    *)
(* exactly the operations whose destination file existed.                  *)
UndoSkipsMissing ==
    /\ [][UndoEntryStep]_vars
    /\ [](pc = "undone" =>
            /\ {results[k].src : k \in 1..Len(results)}
                  = {manifest.ops[i].dst : i \in 1..Len(manifest.ops)} \cap DOMAIN hist.fsU
            /\ Len(results) = Cardinality({i \in 1..Len(manifest.ops) :
                                              manifest.ops[i].dst \in DOMAIN hist.fsU}))

\* one placed file was deleted before undo, which restored the two others
UndoSkipsMissingWitness ==
    /\ pc = "undone"
    /\ hist.undos = 1
    /\ hist.external = 1
    /\ Len(manifest.ops) = 3
    /\ Len(results) = 2
    /\ \E i \in 1..3 : manifest.ops[i].dst \notin DOMAIN hist.fsU

(* C10: after a live organize in mode copy or hardlink that wrote a        *)
(* manifest, and undo of that manifest with no outside change, the source  *)
(* tree holds exactly the paths it held before organize.                   *)
UndoRestoresLayout ==
    (RoundTripDone /\ run.mode \in {"copy", "hardlink"}) =>
        Under(fs, run.src_root) = Under(hist.fs0, run.src_root)


\* every call of the namer so far returned its argument when that did not exist, and
\* otherwise the candidate of the smallest counter from 1 on that did not exist
NamerReturnsFirstFree ==
    \A i \in 1..Len(results) :
        LET r == results[i]
        IN /\ r.arg \notin r.files => r.ret = r.arg
           /\ r.arg \in r.files =>
                 \E k \in 1..(Cardinality(r.files) + 1) :
                     /\ r.ret = Append(Parent(r.arg),
                                       Stem(Name(r.arg)) \o <<"(">> \o Decimal(k) \o <<")">>
                                           \o Suffix(Name(r.arg)))
                     /\ r.ret \notin r.files
                     /\ \A j \in 1..(k - 1) : Candidate(r.arg, j) \in r.files
           /\ Parent(r.ret) = Parent(r.arg)

\* two calls in a row on the same path: the same value when nothing was created in
\* between, the candidate "(2)" after the candidate "(1)" was created
NamerConsecutive ==
    \A i \in 1..(Len(results) - 1) :
        LET r == results[i]
            s == results[i + 1]
        IN (r.arg = s.arg /\ r.arg \in r.files) =>
              /\ s.files = r.files => s.ret = r.ret
              /\ (s.files = r.files \cup {r.ret} /\ r.ret = Candidate(r.arg, 1)
                  /\ Candidate(r.arg, 2) \notin r.files) => s.ret = Candidate(r.arg, 2)

(* C11: next_nonconflicting_name(p) returns p when p does not exist and    *)
(* otherwise <stem>(k)<ext> in the same directory for the smallest k >= 1  *)
(* that does not exist; a call changes no file and no directory, so two    *)
(* calls in a row return the same candidate, and once the candidate "(1)"  *)
(* is created the next call returns "(2)".                                 *)
NamerContract ==
    /\ [](NamerReturnsFirstFree /\ NamerConsecutive)
    /\ [][Len(results') > Len(results) => (fs' = fs /\ dirs' = dirs)]_vars

\* two calls on the existing a.txt gave a(1).txt, and after a(1).txt was created a(2).txt
NamerWitness ==
    /\ pc = "namer"
    /\ Len(results) = 3
    /\ \A i \in 1..3 : results[i].arg = Append(NamerDir, A_txt)
    /\ results[1].ret = Append(NamerDir, A1_txt)
    /\ results[2].ret = Append(NamerDir, A1_txt)
    /\ results[3].ret = Append(NamerDir, A2_txt)
    /\ Append(NamerDir, A1_txt) \in DOMAIN fs


----------------------------------------------------------------------------
(* What the rule resolver is expected to give, spelled out from the        *)
(* configuration.                                                          *)

\* the least element of a non-empty set of numbers
Least(S) == CHOOSE i \in S : \A j \in S : i <= j

\* the indices of the glob patterns that match the name, and of the MIME prefixes
\* that prefix its guessed type
GlobHits(rules, name) == {i \in 1..Len(rules.by_glob) : FnMatch(name, rules.by_glob[i].pattern)}
MimeHits(rules, name) ==
    {i \in 1..Len(rules.by_mime) :
        GuessType(name) # <<>> /\ StartsWith(GuessType(name), rules.by_mime[i].prefix)}

\* the classification folder by strict precedence of the rule kinds
ExpectedFolder(rules, name) ==
    IF Lower(Suffix(name)) \in DOMAIN rules.by_extension
    THEN rules.by_extension[Lower(Suffix(name))]
    ELSE IF GlobHits(rules, name) # {} THEN rules.by_glob[Least(GlobHits(rules, name))].folder
    ELSE IF MimeHits(rules, name) # {} THEN rules.by_mime[Least(MimeHits(rules, name))].folder
    ELSE rules.unknown_folder

\* the buckets, by index, whose max_mb is absent or not below the size in megabytes
BucketHits(rules, size) ==
    {i \in 1..Len(rules.size_buckets) :
        ~rules.size_buckets[i].has_max \/ size <= rules.size_buckets[i].max_mb * 1048576}

\* the same, among the buckets that have a folder
FolderBucketHits(rules, size) == {i \in BucketHits(rules, size) : rules.size_buckets[i].has_folder}

\* the year, month and day of the dates of the model as the text of the path segments
DateText(dt) ==
    IF dt = June1 THEN <<<<"2", "0", "2", "5">>, <<"0", "6">>, <<"0", "1">>>>
    ELSE <<<<"2", "0", "2", "4">>, <<"1", "2">>, <<"2", "5">>>>

ExpectedDateSegments(rules, dt) ==
    IF ~rules.by_date.enabled THEN <<>>
    ELSE <<rules.by_date.base_folder>> \o
         SubSeq(DateText(dt), 1, CASE rules.by_date.group = "year" -> 1
                                   [] rules.by_date.group = "month" -> 2
                                   [] rules.by_date.group = "day" -> 3)

Resolved == pc = "resolved"

(* C12: the classification folder, the parent directory of the destination,*)
(* is the extension map entry of the lower-cased suffix if there is one,   *)
(* else the folder of the first glob pattern that matches, else the folder *)
(* of the first MIME prefix of the guessed type, else unknown_folder; it   *)
(* is never empty.                                                         *)
ClassificationPrecedence ==
    Resolved =>
        LET r == results[1]
        IN /\ Name(Parent(r.dst)) = ExpectedFolder(run.rules, Name(r.src))
           /\ Name(Parent(r.dst)) # <<>>
           /\ r.matched \in {<<>>, ExpectedFolder(run.rules, Name(r.src))}
           /\ r.matched = <<>> =>
                 /\ Lower(Suffix(Name(r.src))) \notin DOMAIN run.rules.by_extension
                 /\ GlobHits(run.rules, Name(r.src)) = {}
                 /\ MimeHits(run.rules, Name(r.src)) = {}

\* A.TXT is classified by the extension map although a glob pattern and a MIME prefix match too
ClassificationWitness ==
    /\ Resolved
    /\ Name(results[1].src) = A_TXT
    /\ run.rules.by_extension = (ExtTxt :> Text)
    /\ GlobHits(run.rules, A_TXT) # {}
    /\ MimeHits(run.rules, A_TXT) # {}
    /\ Name(Parent(results[1].dst)) = Text

(* C13: the destination is destRoot / size-bucket folder, if a bucket      *)
(* matches / base folder, year, month, day as the grouping says, if the    *)
(* date rule is enabled / classification folder / file name, in this       *)
(* order, so the classification folder is the parent of the file name.     *)
DestinationLayout ==
    Resolved =>
        LET r == results[1]
            bucket == IF FolderBucketHits(run.rules, fs[r.src].size) = {} THEN <<>>
                      ELSE <<run.rules.size_buckets[Least(FolderBucketHits(run.rules, fs[r.src].size))].folder>>
        IN r.dst = run.dest_root \o bucket \o ExpectedDateSegments(run.rules, fs[r.src].mtime)
                       \o <<ExpectedFolder(run.rules, Name(r.src)), Name(r.src)>>

\* a destination with all the segments: dst/Small/By Date/2024/12/25/Text/a.txt
DestinationWitness ==
    /\ Resolved
    /\ results[1].dst = DestRoot \o <<Small, ByDate, <<"2", "0", "2", "4">>, <<"1", "2">>, <<"2", "5">>,
                                      Text, A_txt>>

(* C14, as stated: match_size_bucket returns the folder of the first       *)
(* bucket whose max_mb is absent or at least the size in megabytes, and    *)
(* no folder when no bucket matches.                                       *)
FirstMatchingBucket ==
    Resolved =>
        LET hits == BucketHits(run.rules, fs[results[1].src].size)
        IN results[1].bucket = IF hits = {} THEN <<>>
                               ELSE IF run.rules.size_buckets[Least(hits)].has_folder
                                    THEN run.rules.size_buckets[Least(hits)].folder
                               ELSE <<>>

(* C14, amended: match_size_bucket returns the folder of the first bucket  *)
(* that has a folder and whose max_mb is absent or satisfies               *)
(* size_bytes <= max_mb * 1048576, and no folder when there is none; a     *)
(* first bucket with a folder and max_mb = 0 gives its folder exactly for  *)
(* the files of zero bytes.                                                *)
FirstMatchingFolderBucket ==
    Resolved =>
        LET size == fs[results[1].src].size
            hits == FolderBucketHits(run.rules, size)
            buckets == run.rules.size_buckets
        IN /\ results[1].bucket = IF hits = {} THEN <<>> ELSE buckets[Least(hits)].folder
           /\ (buckets # <<>> /\ buckets[1].has_folder /\ buckets[1].has_max /\ buckets[1].max_mb = 0) =>
                 (results[1].bucket = buckets[1].folder <=> size = 0)

\* a file of zero bytes in the bucket of max_mb = 0, the first of two
FirstMatchingWitness ==
    /\ Resolved
    /\ fs[results[1].src].size = 0
    /\ Len(run.rules.size_buckets) = 2
    /\ run.rules.size_buckets[1].has_folder
    /\ run.rules.size_buckets[1].max_mb = 0
    /\ results[1].bucket = Empty

----------------------------------------------------------------------------
\* Placement mode, planning, failure, pruning, overwriting, repeated undo

\* the records of the run that placed or planned a file
Placed == {i \in 1..Len(results) : results[i].action # "skip-duplicate"}

\* a live organize is under way or has returned
InLiveOrganize == InOrganize /\ ~run.dry_run

(* C15: in a live run the recorded action of every non-skipped file is the *)
(* requested mode, or 'copy' for a requested hardlink; with mode=move      *)
(* every placed file has action 'move' and is gone from its source path,   *)
(* whatever the duplicates policy.                                         *)
ModeIsHonoured ==
    InLiveOrganize =>
        \A i \in Placed :
            /\ \/ results[i].action = run.mode
               \/ run.mode = "hardlink" /\ results[i].action = "copy"
            /\ run.mode = "move" =>
                   /\ results[i].action = "move"
                   /\ results[i].src \notin DOMAIN fs

(* C16: the destination a dry run records for each file is the destination *)
(* the live run of the same call records for it, and the destinations a    *)
(* dry run plans for distinct non-skipped files are pairwise distinct.     *)
DryRunPredictsLive ==
    /\ InLiveOrganize =>
           /\ Len(hist.planned) = Len(results)
           /\ \A i \in 1..Len(results) : results[i].dst = hist.planned[i]
    /\ (InOrganize /\ run.dry_run) =>
           \A i, j \in Placed : i # j => results[i].dst # results[j].dst

\* organize raised an I/O error in the loop of a live run
FailedInLoop == pc = "error" /\ err = "OSError" /\ hist.failed # NoPath /\ ~run.dry_run

\* the i-th record's placement is in effect
Applied(i) ==
    LET r == results[i]
    IN /\ r.dst \in DOMAIN fs
       /\ fs[r.dst].hash = hist.fs0[r.src].hash
       /\ r.action = "move" => r.src \notin DOMAIN fs
       /\ r.action \in {"copy", "hardlink"} => r.src \in DOMAIN fs

\* all along a live run the placements recorded so far are in effect
PlacementsApplied == (pc = "walking" /\ ~run.dry_run) => \A i \in Placed : Applied(i)

\* the step at which the loop of a live run raises leaves the manifest as it was
\* before the run and touches no file but the failing one
FailingStep ==
    (pc = "walking" /\ ~run.dry_run /\ pc' = "error" /\ hist'.failed # NoPath) =>
        /\ manifest' = hist.man0
        /\ \A p \in DOMAIN fs \ {hist'.failed} : p \in DOMAIN fs' /\ fs'[p] = fs[p]

(* C17: when a file of a live run fails with an I/O error the run ends     *)
(* there: no step follows, the placements of the earlier files stay        *)
(* applied, the files not yet visited are where and what they were, and    *)
(* the manifest is what it was before the run.                             *)
FailureKeepsPrefix ==
    /\ []PlacementsApplied
    /\ [][FailingStep]_vars
    /\ [][~FailedInLoop]_vars

\* the second file fails after the first was moved, with a manifest of an earlier run
\* on disk, and leaves a part of its content at its destination
FailureWitness ==
    /\ FailedInLoop
    /\ hist.man0.exists
    /\ manifest = hist.man0
    /\ run.mode = "move"
    /\ hist.failed \in DOMAIN fs
    /\ \E p \in Under(hist.fs0, run.src_root) :
          /\ p \notin DOMAIN fs
          /\ \E q \in Under(fs, run.dest_root) : fs[q] = hist.fs0[p]
    /\ \E p \in DOMAIN fs \ DOMAIN hist.fs0 :
          /\ fs[p].mtime = Today
          /\ fs[p].size > 0
          /\ fs[p].size < fs[hist.failed].size

\* the path p of the tree at root is cut from the walk: a directory on the way from
\* root to p is excluded by name or hidden, or the file itself is hidden
PrunedPath(rules, root, p) ==
    \/ \E k \in (Len(root) + 1)..(Len(p) - 1) :
           \/ p[k] \in rules.exclude_dirs
           \/ rules.exclude_hidden /\ p[k][1] = "."
    \/ rules.exclude_hidden /\ Name(p)[1] = "."

(* C18: organize records each file of the source tree that is not pruned   *)
(* exactly once and no other; a file under a directory named in            *)
(* exclude_dirs, or (with exclude_hidden) under a hidden directory or      *)
(* itself hidden, is never recorded and stays as it was.                   *)
TraversalPruning ==
    (InOrganize \/ (pc = "error" /\ err = "OSError" /\ hist.failed # NoPath)) =>
        LET tree == {p \in Under(hist.fs0, run.src_root) : Len(p) > Len(run.src_root)}
            kept == {p \in tree : ~PrunedPath(run.rules, run.src_root, p)}
            srcs == {results[i].src : i \in 1..Len(results)}
        IN /\ srcs \subseteq kept
           /\ \A i, j \in 1..Len(results) : i # j => results[i].src # results[j].src
           /\ pc = "organized" => srcs = kept
           /\ \A p \in tree \ kept : p \in DOMAIN fs /\ fs[p] = hist.fs0[p]

\* a step leaves every file that stays at its path as it is, and a path that
\* gains a file was neither a file nor a directory
KeepsExisting ==
    /\ \A p \in DOMAIN fs \cap DOMAIN fs' : fs'[p] = fs[p]
    /\ \A p \in DOMAIN fs' \ DOMAIN fs : p \notin dirs

\* a step of undo that restores a file whose original path is occupied gives it
\* a counter-suffixed name of that path
UndoAvoidsOccupied ==
    (pc = "undoing" /\ pc' = "undoing" /\ results' # results) =>
        LET orig == Head(undo_ops).src
            r == results'[Len(results')]
        IN /\ r.dst \notin DOMAIN fs
           /\ IsNameOrVariant(r.dst, orig)
           /\ Exists(fs, dirs, orig) => r.dst # orig

\* in a live run the destinations are pairwise distinct and the files the
\* destination tree held before the run are unchanged
DestinationsDistinct ==
    InLiveOrganize =>
        /\ \A i, j \in Placed : i # j => results[i].dst # results[j].dst
        /\ \A p \in Under(hist.fs0, run.dest_root) : p \in DOMAIN fs /\ fs[p] = hist.fs0[p]

(* C19: no step of organize or undo writes to a path that exists: the      *)
(* destinations of the non-skipped records of a live run are pairwise      *)
(* distinct, the files the destination tree held before the run are        *)
(* unchanged, and undo restores under a counter-suffixed name a file whose *)
(* original path is occupied.                                              *)
NoOverwrite ==
    /\ []DestinationsDistinct
    /\ [][KeepsExisting /\ UndoAvoidsOccupied]_vars

\* undo of a copy: the source is still there and the file comes back as a(1).txt,
\* after a run that placed a file beside one the destination already held
NoOverwriteWitness ==
    /\ pc = "undone"
    /\ hist.organized
    /\ \E i \in 1..Len(results) :
           /\ results[i].dst = Candidate(Append(SrcRoot, A_txt), 1)
           /\ results[i].dst \in DOMAIN fs
    /\ Append(SrcRoot, A_txt) \in DOMAIN fs
    /\ fs[Append(SrcRoot, A_txt)] = hist.fs0[Append(SrcRoot, A_txt)]
    /\ DestRoot \o <<Text, A_txt>> \in DOMAIN hist.fs0

(* C20: undo leaves the manifest as it is, and a second undo of the same   *)
(* manifest directly after the first restores nothing: it returns no       *)
(* record and leaves files and directories unchanged.                      *)
UndoIdempotent ==
    /\ [](pc = "undone" /\ hist.undos >= 2 => results = <<>> /\ fs = hist.fsU /\ dirs = hist.dirsU)
    /\ [][(pc = "undoing" \/ pc' = "undoing") => manifest' = manifest]_vars

\* the second undo of a manifest of three moves, all three restored by the first
UndoIdempotentWitness ==
    /\ pc = "undone"
    /\ hist.undos = 2
    /\ hist.organized
    /\ hist.external = 0
    /\ Len(manifest.ops) = 3
    /\ \A i \in 1..3 : manifest.ops[i].action = "move" /\ manifest.ops[i].src \in DOMAIN fs
    /\ results = <<>>

====
